---- MODULE Spec2Model ----
(***************************************************************************)
(* Superjoin: two-way mirror between a Google Sheet and the MySQL table    *)
(* `users`.  The module models                                             *)
(*   - the Redis cell lock (lockService.acquireLock / releaseLock) and the *)
(*     request handlers that use it (bot task, sheet-update worker job,    *)
(*     SQL terminal),                                                      *)
(*   - the CDC monitor: bootstrap, poll loop, outbound DB -> Sheet sync,   *)
(*     offline queues.                                                     *)
(* Time in the lock part advances in ticks of TickMs milliseconds.          *)
(***************************************************************************)
EXTENDS Integers, Sequences, FiniteSets, TLC

(* ------------------------------ bounds -------------------------------- *)
NumReqs == 2
NumRows == 1
NumCols == 2
MaxEdits == 1
MaxWrites == 1
MaxFaults == 1
\* the history counter of reconciler writes stops counting here
MaxCount == 4
\* calls of syncFromDatabase that can be in progress at once
MaxPasses == 2
\* cells that differ between the snapshots given to the diff
MaxDiffCells == 2
\* calls of debouncedSyncFromDatabase, and the time they are spread over in
\* steps of DebounceStepMs
MaxCalls == 3
MaxTime == 12
\* 429 answers of the Sheets API in the runs that look at the backoff
MaxLimits == 5
\* the configured poll intervals are 0, 100, ..., MaxInterval * 100 ms
MaxInterval == 60

(* ------------------------- program constants -------------------------- *)
LOCK_TTL == 5
RETRY_DELAY == 200
MAX_RETRIES == 15
IGNORE_TTL == 10
SYNC_DEBOUNCE == 500
\* rateLimitBackoffMs at its reset value, and its cap
INITIAL_BACKOFF == 5000
MAX_BACKOFF == 60000

\* One tick of model time is TickMs milliseconds.  A caller sleeping in
\* acquireLock makes AttemptsPerTick attempts in that time; the failed ones
\* change nothing but its retry counter, so they are taken together.
TickMs == 5 * RETRY_DELAY
AttemptsPerTick == TickMs \div RETRY_DELAY
\* number of ticks a lease lives (SET ... EX 5)
TtlTicks == (LOCK_TTL * 1000) \div TickMs

(* ------------------------------ values -------------------------------- *)
COLUMNS == <<"A", "B", "C", "D", "E", "F", "G", "H">>
Rows == 1..NumRows
Cols == 1..NumCols

\* canonical cell key `${row}:${col}`
Key(r, c) == ToString(r) \o ":" \o COLUMNS[c]
Addrs == {Key(r, c) : r \in Rows, c \in Cols}

Vals == {"x", "y"}
CellVals == Vals \cup {""}

\* the addresses in the order of the range read (row-major) and of
\* SELECT ... ORDER BY row_num, col_name
AddrSeq == [i \in 1..(NumRows * NumCols) |->
               Key(((i - 1) \div NumCols) + 1, ((i - 1) % NumCols) + 1)]

\* a Map<string, string> over cell keys; Absent marks a key the map lacks
Absent == "(absent)"
Snaps == [Addrs -> CellVals \cup {Absent}]
EmptySnap == [a \in Addrs |-> Absent]
\* map.get(key) || ''
GetRaw(m, a) == m[a]
Get(m, a) == IF m[a] = Absent THEN "" ELSE m[a]

Reqs == 1..NumReqs
BOT_NAMES == {"Bot-Alpha", "Bot-Bravo"}
JobOwner(r) == "job:" \o ToString(r)
SqlOwners == {"user_1"}
Owners == BOT_NAMES \cup {JobOwner(r) : r \in Reqs} \cup SqlOwners
NoOwner == "(nil)"

\* the callers a request slot can stand for: a bot task (bot names repeat
\* from one simulation to the next), a SQL terminal query with its owner
\* field, a worker job with lockOwner job:<id>
OwnersOf(r) ==
    IF r = 1 THEN {"Bot-Alpha", "user_1"}
    ELSE IF r = 2 THEN {"Bot-Alpha", JobOwner(r)}
    ELSE {"Bot-Bravo"}
\* the cells the requests address: the contested cell of a bot simulation and
\* one more cell
TaskCells == {Key(1, 1), Key(1, NumCols)}
\* the value a request writes
ValOf(owner) == IF owner \in BOT_NAMES THEN "x" ELSE "y"
KindOf(owner) ==
    IF owner \in BOT_NAMES THEN "bot"
    ELSE IF owner \in SqlOwners THEN "sql"
    ELSE "worker"

\* last_modified_by written by each handler
OriginOf(owner) ==
    IF KindOf(owner) = "bot" THEN owner
    ELSE IF KindOf(owner) = "worker" THEN "user"
    ELSE "sql_terminal"

NoRow == [value |-> "", origin |-> "(absent)"]
FreeLock == [owner |-> NoOwner, ttl |-> 0]
\* tries (history): the SET commands this call of acquireLock has sent
IdleReq == [owner |-> NoOwner, addr |-> Key(1, 1), pc |-> "idle", retries |-> 0,
            tries |-> 0]
\* history record of the last step: a lock-service call, a store write, the
\* diff of a poll (cells: addresses reported, stale: pushed addresses whose
\* snapshot entry differs from the pushed value), an outbound batch
\* (cells: addresses in the batch, lost: addresses whose remote edit the
\* batch overwrote before any poll had fetched it) or the building of a batch
\* (cells: addresses of its value writes); api: the methods of the Sheets API
\* the step called
NoEv == [op |-> "none", addr |-> Key(1, 1), by |-> NoOwner, before |-> NoOwner,
         ok |-> FALSE, held |-> FALSE, mark |-> FALSE, origin |-> "(absent)",
         cells |-> {}, stale |-> {}, lost |-> {}, api |-> {}]
LockEv(op, a, owner, before, ok) ==
    [NoEv EXCEPT !.op = op, !.addr = a, !.by = owner, !.before = before, !.ok = ok]
WriteEv(a, writer, origin, held, mark) ==
    [NoEv EXCEPT !.op = "write", !.addr = a, !.by = writer, !.origin = origin,
                 !.held = held, !.mark = mark]
DiffEv(cells, stale) == [NoEv EXCEPT !.op = "diff", !.cells = cells, !.stale = stale]
BatchEv(cells, ok) ==
    [NoEv EXCEPT !.op = "batch", !.cells = cells, !.ok = ok, !.api = {"batchUpdate"}]
BuiltEv(cells) == [NoEv EXCEPT !.op = "built", !.cells = cells]

VARIABLES
    lock,       \* Redis keys lock:<row>:<col> : owner and remaining ticks
    rq,         \* the requests (bot task, worker job, SQL query)
    db,         \* table users: address -> [value, origin] or NoRow
    holders,    \* history: requests whose acquire succeeded and whose key still lives
    ev,         \* history: what the last step did (lock call or store write)
    simul,      \* history: every request so far began before any attempt was made
    sheet,      \* the Google Sheet: address -> value, "" for an empty cell
    sheetUp,    \* the Sheets API is reachable
    dbUp,       \* MySQL is reachable
    cdc,        \* CDCMonitor fields: lastSnapshot, sheetOnline, dbOnline,
                \* dbDirtySinceLastSync, syncDebounceTimer, and the startup phase
    poll,       \* the poll in flight: isPollInProgress, currentData, changes left
    sync,       \* the outbound passes in flight: dbRows, sheetData, updates
    kv,         \* Redis: pending:to_sheet, pending:to_db, ignore:* keys, snapshots
    budget,     \* inputs and faults the environment may still produce
    hist,       \* history: what the reconciler pushed and applied (see NoHist)
    off,        \* echo-prevention layers that are switched off
    hook,       \* edit notifications on their way to /webhook, and the jobs
                \* handleWebhook has put into the sheet-update queue
    conf,       \* process.env.POLL_INTERVAL, the period of the poll timer and
                \* the pollInterval last reported by GET /status
    deb,        \* the timers set by debouncedSyncFromDatabase, syncDebounceTimer
                \* and the clock they run on
    proc        \* the server process: up, or how far gracefulShutdown has come

lockVars == <<lock, rq, holders, simul>>
cdcVars == <<sheet, sheetUp, dbUp, cdc, poll, sync, kv, budget, hist, off, hook, conf,
             deb, proc>>
vars == <<lock, rq, db, holders, ev, simul, sheet, sheetUp, dbUp, cdc, poll, sync,
          kv, budget, hist, off, hook, conf, deb, proc>>

(* --------------------------- lock service ----------------------------- *)
\* one attempt of acquireLock: SET lock:<addr> owner EX 5 NX
AcquireOnceNoNx(l, a, owner) ==
    [lock |-> [l EXCEPT ![a] = [owner |-> owner, ttl |-> TtlTicks]], ok |-> TRUE]
AcquireOnce(l, a, owner) ==
    IF l[a].owner = NoOwner
    THEN [lock |-> [l EXCEPT ![a] = [owner |-> owner, ttl |-> TtlTicks]], ok |-> TRUE]
    ELSE [lock |-> l, ok |-> FALSE]

\* releaseLock, Lua: if GET(key) == owner then DEL(key) else 0
ReleaseAlways(l, a, owner) == [l EXCEPT ![a] = FreeLock]
ReleaseNever(l, a, owner) == l
ReleaseLock(l, a, owner) ==
    IF l[a].owner = owner THEN [l EXCEPT ![a] = FreeLock] ELSE l

\* EX 5: the key's TTL runs down by one tick; at zero Redis drops the key
AgeNever(l) == l
Age(l) ==
    [a \in Addrs |->
        IF l[a].owner = NoOwner THEN FreeLock
        ELSE IF l[a].ttl <= 1 THEN FreeLock
        ELSE [l[a] EXCEPT !.ttl = @ - 1]]

\* acquireLock's loop: after a failed attempt, delay(RETRY_DELAY); retries++
AfterDelayForever(q) == [q EXCEPT !.retries = 0, !.pc = "acquire"]
AfterDelay(q) ==
    IF q.retries + AttemptsPerTick < MAX_RETRIES
    THEN [q EXCEPT !.retries = @ + AttemptsPerTick, !.pc = "acquire"]
    ELSE [q EXCEPT !.retries = @ + AttemptsPerTick, !.pc = "denied"]

\* the same loop, one pass at a time: await delay(RETRY_DELAY); retries++;
\* then the loop test
DelayOnceMore(q) ==
    IF q.retries + 1 <= MAX_RETRIES
    THEN [q EXCEPT !.retries = @ + 1, !.pc = "acquire"]
    ELSE [q EXCEPT !.retries = @ + 1, !.pc = "denied"]
DelayOnce(q) ==
    IF q.retries + 1 < MAX_RETRIES
    THEN [q EXCEPT !.retries = @ + 1, !.pc = "acquire"]
    ELSE [q EXCEPT !.retries = @ + 1, !.pc = "denied"]

\* history bookkeeping: a deleted or expired key has no holder
HoldersAfter(l2, h) == [a \in Addrs |-> IF l2[a].owner = NoOwner THEN {} ELSE h[a]]

(* ------------------------------ store --------------------------------- *)
\* INSERT ... ON DUPLICATE KEY UPDATE cell_value, last_modified_by
Upsert(d, a, v, origin) == [d EXCEPT ![a] = [value |-> v, origin |-> origin]]
\* DELETE FROM users WHERE row_num = ? AND col_name = ?
Delete(d, a) == [d EXCEPT ![a] = NoRow]
Exists(d, a) == d[a] # NoRow

(* ============================ CDC monitor ============================== *)
Layers == {"ignore", "origin", "snapshot"}
\* values typed into the sheet, and values of the local writes
RemoteVals == CellVals
LocalVals == {"y"}

NoRows == [a \in Addrs |-> NoRow]
EmptySheet == [a \in Addrs |-> ""]

\* a new CDCMonitor(): the field initialisers.  limited: Date.now() is
\* before rateLimitedUntil; window: rateLimitedUntil - Date.now() when
\* rateLimitedUntil was last set, 0 once that time has passed; backoff:
\* rateLimitBackoffMs; consec: consecutiveRateLimits
NewCdc == [phase |-> "boot", lastSnapshot |-> EmptySnap, sheetOnline |-> TRUE,
           dbOnline |-> TRUE, dirty |-> FALSE, timer |-> FALSE, limited |-> FALSE,
           window |-> 0, backoff |-> INITIAL_BACKOFF, consec |-> 0]
\* Math.min(60000, this.rateLimitBackoffMs * 2)
BackoffUncapped(ms) == ms * 2
Backoff(ms) == IF ms * 2 < MAX_BACKOFF THEN ms * 2 ELSE MAX_BACKOFF
\* own (history): the cells whose fetched value is the value the reconciler
\* itself last wrote to the sheet
\* busy is isPollInProgress; n (history): the calls of pollForChanges that
\* are past the flag test and have not returned
IdlePoll == [pc |-> "idle", cur |-> EmptySnap, todo |-> <<>>, own |-> {},
             busy |-> FALSE, n |-> 0]
\* the finally block of pollForChanges
FinallyKeepsFlag(p) == [IdlePoll EXCEPT !.busy = p.busy, !.n = p.n - 1]
Finally(p) == [IdlePoll EXCEPT !.busy = FALSE, !.n = p.n - 1]
IdleSync == [pc |-> "idle", rows |-> NoRows, updates |-> EmptySnap, synced |-> {}]
\* the calls of syncFromDatabase in progress; a call takes the first free slot
Passes == 1..MaxPasses
NoPasses == [p \in Passes |-> IdleSync]
FreeSlot(p) == sync[p].pc = "idle" /\ \A q \in 1..(p - 1) : sync[q].pc # "idle"
EmptyKv == [pendingToSheet |-> <<>>, pendingToDb |-> <<>>, ignore |-> {},
            hasSnap |-> FALSE, snap |-> EmptySnap, dbSnap |-> NoRows]
NoBudget == [edits |-> 0, writes |-> 0, faults |-> 0]
\* history:
\*   fresh   cells edited in the sheet whose edit the poller has not applied
\*   touched cells written locally
\*   quiet   cells whose remote edit the poller applied, no input since
\*   ours    the value the reconciler last wrote to the sheet cell, Absent
\*           once the cell is edited in the sheet
\*   pushed  values of the successful batch pushes since the last diff
\*   n       reconciler writes to the cell, either side, since the last input
\*   owed    cells with an entry queued for the sheet and not replayed yet
NoHist == [fresh |-> {}, touched |-> {}, quiet |-> {}, ours |-> EmptySnap,
           pushed |-> EmptySnap, n |-> [a \in Addrs |-> 0], owed |-> {}]

\* the process and its gracefulShutdown
\*   pc        "up"; the call gracefulShutdown awaits ("worker", "pool",
\*             "kv"); "rejected" when an awaited call threw; "exited"
\*   attempted the steps called so far, closed those that returned
\*   code      the exit code, NoCode while the process lives
NoCode == -1
NoProc == [pc |-> "up", attempted |-> {}, closed |-> {}, code |-> NoCode]
ShutdownSteps == {"stop", "worker", "pool", "kv"}

RowOf(a) == CHOOSE r \in Rows : \E c \in Cols : Key(r, c) = a
ColOf(a) == CHOOSE c \in Cols : Key(RowOf(a), c) = a
Max(S) == CHOOSE m \in S : \A x \in S : x <= m

\* spreadsheets.values.get leaves out the empty cells at the end of a row
\* and the empty rows at the end of the range; fetchSheetData keys the rest
RowLen(sh, r) ==
    LET used == {c \in Cols : sh[Key(r, c)] # ""} IN
    IF used = {} THEN 0 ELSE Max(used)
CellMap(sh) ==
    [a \in Addrs |-> IF ColOf(a) <= RowLen(sh, RowOf(a)) THEN sh[a] ELSE Absent]

SeqRange(q) == {q[i] : i \in 1..Len(q)}

\* the two loops of pollForChanges that collect `changes`: the first goes
\* through the entries of currentData in their order oc, the second through
\* the entries of lastSnapshot in their order ol
DiffNoHasCheck(cur, last, oc, ol) ==
    LET Changed(a) == cur[a] # Absent /\ Get(last, a) # cur[a]
        Gone(a) == last[a] \notin {Absent, ""}
        keys == SelectSeq(oc, Changed) \o SelectSeq(ol, Gone)
    IN [i \in 1..Len(keys) |->
          [addr |-> keys[i], oldValue |-> Get(last, keys[i]),
           newValue |-> Get(cur, keys[i])]]
Diff(cur, last, oc, ol) ==
    LET Changed(a) == cur[a] # Absent /\ Get(last, a) # cur[a]
        Gone(a) == cur[a] = Absent /\ last[a] \notin {Absent, ""}
        keys == SelectSeq(oc, Changed) \o SelectSeq(ol, Gone)
    IN [i \in 1..Len(keys) |->
          [addr |-> keys[i], oldValue |-> Get(last, keys[i]),
           newValue |-> Get(cur, keys[i])]]
\* the cells of the changes, with both maps in the order of the range read
DiffChanges(cur, last) ==
    LET changes == Diff(cur, last, AddrSeq, AddrSeq) IN
    [i \in 1..Len(changes) |-> changes[i].addr]

\* the snapshots given to the diff differ in the first MaxDiffCells cells of
\* the range; the orders are the permutations of these cells, followed by
\* the other cells
DiffCells ==
    {AddrSeq[i] : i \in 1..(IF MaxDiffCells < Len(AddrSeq) THEN MaxDiffCells
                            ELSE Len(AddrSeq))}
DiffOrders ==
    LET k == Cardinality(DiffCells)
        Other(a) == a \notin DiffCells
    IN {o \o SelectSeq(AddrSeq, Other) :
          o \in {f \in [1..k -> DiffCells] : \A i, j \in 1..k : i # j => f[i] # f[j]}}
DiffSnaps == {m \in Snaps : \A a \in Addrs \ DiffCells : m[a] = Absent}
Overlay(m, upd, cells) == [a \in Addrs |-> IF a \in cells THEN upd[a] ELSE m[a]]
Bump(n, cells) ==
    [a \in Addrs |-> IF a \in cells /\ n[a] < MaxCount THEN n[a] + 1 ELSE n[a]]

\* syncFromDatabase: the test that keeps a row out of the batch and the queue
FromSheet(row) == "origin" \notin off /\ row.origin = "sheet"
NeedsPushAnyOrigin(row, sheetValue) == row.value # sheetValue
NeedsPush(row, sheetValue) == row.value # sheetValue /\ ~FromSheet(row)
\* syncedCells, and the cells of the delete propagation
Pushes(rows, data) ==
    {a \in Addrs : rows[a] # NoRow /\ NeedsPush(rows[a], Get(data, a))}
Deletes(rows, data) ==
    {a \in Addrs : rows[a] = NoRow /\ data[a] \notin {Absent, ""}}
Updates(rows, data) ==
    [a \in Addrs |-> IF a \in Pushes(rows, data) THEN rows[a].value
                     ELSE IF a \in Deletes(rows, data) THEN ""
                     ELSE Absent]
\* the entries queued when the sheet cannot be read
QueueRows(rows) ==
    LET Local(a) == rows[a] # NoRow /\ ~FromSheet(rows[a])
        cells == SelectSeq(AddrSeq, Local)
    IN [i \in 1..Len(cells) |->
          [addr |-> cells[i], value |-> rows[cells[i]].value,
           source |-> rows[cells[i]].origin]]
\* the entries queued when batchUpdate fails
QueueSynced(upd, synced) ==
    LET Synced(a) == a \in synced
        cells == SelectSeq(AddrSeq, Synced)
    IN [i \in 1..Len(cells) |->
          [addr |-> cells[i], value |-> upd[cells[i]], source |-> "db_sync"]]

\* queuePendingChange, once for each entry: rpush of the change with
\* timestamp: Date.now().  Only the order of the timestamps is kept: an
\* entry is stamped one above the stamps in the list.
Stamps(q) == {q[i].ts : i \in 1..Len(q)}
QueueNothing(q, entries) == q
QueuePendingChange(q, entries) ==
    LET base == IF q = <<>> THEN 0 ELSE Max(Stamps(q)) IN
    q \o [i \in 1..Len(entries) |->
            [addr |-> entries[i].addr, value |-> entries[i].value,
             source |-> entries[i].source, ts |-> base + i]]
AddrsOf(q) == {q[i].addr : i \in 1..Len(q)}

PushSingleCellToDb(d, ch) ==
    IF ch.value = "" THEN Delete(d, ch.addr)
    ELSE Upsert(d, ch.addr, ch.value, ch.source)
PushSingleCellToSheet(sh, ch) == [sh EXCEPT ![ch.addr] = ch.value]

RECURSIVE ReplayToDb(_, _)
ReplayToDb(d, q) ==
    IF q = <<>> THEN d ELSE ReplayToDb(PushSingleCellToDb(d, Head(q)), Tail(q))
RECURSIVE ReplayToSheet(_, _)
ReplayToSheet(sh, q) ==
    IF q = <<>> THEN sh
    ELSE ReplayToSheet(PushSingleCellToSheet(sh, Head(q)), Tail(q))
RECURSIVE BumpEach(_, _)
BumpEach(n, q) ==
    IF q = <<>> THEN n ELSE BumpEach(Bump(n, {Head(q).addr}), Tail(q))

\* the state a handler works on, and its commit at the end of the step
Cur == [cdc |-> cdc, sheet |-> sheet, db |-> db, kv |-> kv, hist |-> hist,
        budget |-> budget, ev |-> NoEv]
Commit(st) ==
    /\ cdc' = st.cdc /\ sheet' = st.sheet /\ db' = st.db /\ kv' = st.kv
    /\ hist' = st.hist /\ budget' = st.budget /\ ev' = st.ev

\* processPendingChanges(target): lpop and replay entry after entry; the
\* entry whose replay fails is pushed to the tail and the loop stops.  The
\* target is reachable (up) or not for the whole call.
ProcessPendingChanges(st, target, up) ==
    LET q == IF target = "sheet" THEN st.kv.pendingToSheet ELSE st.kv.pendingToDb IN
    IF q = <<>> THEN st
    ELSE IF target = "db"
    THEN IF up
         THEN [st EXCEPT !.db = ReplayToDb(st.db, q),
                         !.kv.pendingToDb = <<>>,
                         !.hist.n = BumpEach(@, q),
                         !.ev = [WriteEv(Head(q).addr, "cdc", Head(q).source, FALSE,
                                         \A ch \in SeqRange(q) : ch.addr \in st.kv.ignore)
                                    EXCEPT !.api = st.ev.api]]
         ELSE [st EXCEPT !.kv.pendingToDb = Tail(q) \o <<Head(q)>>]
    ELSE IF up
         THEN [st EXCEPT !.sheet = ReplayToSheet(st.sheet, q),
                         !.kv.pendingToSheet = <<>>,
                         !.hist.n = BumpEach(@, q),
                         !.hist.ours = ReplayToSheet(@, q),
                         !.hist.owed = @ \ AddrsOf(q),
                         !.ev.api = @ \cup {"update"}]
         ELSE [st EXCEPT !.kv.pendingToSheet = Tail(q) \o <<Head(q)>>,
                         !.ev.api = @ \cup {"update"}]

\* checkConnectivity: SELECT 1
CheckConnectivity(st) ==
    IF dbUp
    THEN IF ~st.cdc.dbOnline
         THEN ProcessPendingChanges([st EXCEPT !.cdc.dbOnline = TRUE], "db", dbUp)
         ELSE st
    ELSE [st EXCEPT !.cdc.dbOnline = FALSE]

\* fetchSheetData: skipped inside the backoff window, else values.get and
\* its outcome: the range, a 429, or a network error
FetchOutcomes ==
    IF cdc.limited THEN {"skip"}
    ELSE IF ~sheetUp THEN {"down"}
    ELSE {"ok"} \cup (IF budget.faults > 0 THEN {"limited"} ELSE {})
FetchSheetData(st, out) ==
    IF out = "ok"
    THEN LET data == CellMap(st.sheet)
             st0 == [st EXCEPT !.cdc.consec = 0, !.cdc.backoff = INITIAL_BACKOFF,
                               !.ev.api = @ \cup {"get"}]
             st1 == IF ~st0.cdc.sheetOnline
                    THEN ProcessPendingChanges([st0 EXCEPT !.cdc.sheetOnline = TRUE],
                                               "sheet", sheetUp)
                    ELSE st0
         IN [ok |-> TRUE, data |-> data,
             st |-> [st1 EXCEPT !.kv.hasSnap = TRUE, !.kv.snap = data]]
    ELSE IF out = "limited"
    THEN [ok |-> FALSE, data |-> EmptySnap,
          st |-> [st EXCEPT !.cdc.limited = TRUE,
                            !.cdc.consec = @ + 1,
                            !.cdc.backoff = Backoff(@),
                            !.cdc.window = Backoff(st.cdc.backoff),
                            !.budget.faults = @ - 1,
                            !.ev.api = @ \cup {"get"}]]
    ELSE IF out = "down"
    THEN [ok |-> FALSE, data |-> EmptySnap,
          st |-> [st EXCEPT !.cdc.sheetOnline = FALSE, !.ev.api = @ \cup {"get"}]]
    ELSE [ok |-> FALSE, data |-> EmptySnap, st |-> st]

\* syncToDatabase(data): upsert every non-empty cell with origin 'sheet'; the
\* store is reachable or not for the whole loop
SyncToDatabase(st, data) ==
    LET Filled(a) == data[a] \notin {Absent, ""}
        cells == SelectSeq(AddrSeq, Filled)
        entries == [i \in 1..Len(cells) |->
                      [addr |-> cells[i], value |-> data[cells[i]], source |-> "sheet"]]
    IN IF cells = <<>> THEN st
       ELSE IF dbUp
       THEN [st EXCEPT !.db = ReplayToDb(@, entries),
                       !.hist.n = BumpEach(@, entries),
                       !.ev = [WriteEv(cells[1], "cdc", "sheet", FALSE,
                                       \A a \in SeqRange(cells) : a \in st.kv.ignore)
                                  EXCEPT !.api = st.ev.api]]
       ELSE [st EXCEPT !.cdc.dbOnline = FALSE,
                       !.kv.pendingToDb = QueuePendingChange(@, entries)]

(* ------------------------------ debounce ------------------------------ *)
\* the clock of the timers advances in steps of DebounceStepMs
DebounceStepMs == 100
DebounceSteps == SYNC_DEBOUNCE \div DebounceStepMs
\* now:     the clock
\* pending: the timers set and neither fired nor cleared, with the time at
\*          which each fires
\* handle:  syncDebounceTimer, 0 for null; ids: the timers created
\* history: last, the time of the last call (-1 before the first); fires,
\*          the timers fired since the first call of the current burst;
\*          firedAt, the time of the last firing
NoDeb == [now |-> 0, pending |-> {}, handle |-> 0, ids |-> 0,
          last |-> -1, fires |-> 0, firedAt |-> -1]
\* clearTimeout(id): a timer that fired, or null, is left alone
ClearTimeout(pending, id) == {t \in pending : t.id # id}
\* debouncedSyncFromDatabase: clearTimeout(syncDebounceTimer) when it is
\* set, then syncDebounceTimer = setTimeout(..., SYNC_DEBOUNCE).  A call
\* made after the timer of the calls before it fired begins a new burst.
DebounceNoClear(d) ==
    [d EXCEPT !.pending = @ \cup {[id |-> d.ids + 1, due |-> d.now + DebounceSteps]},
              !.handle = d.ids + 1,
              !.ids = @ + 1,
              !.last = d.now,
              !.fires = IF d.pending = {} THEN 0 ELSE @]
Debounce(d) ==
    [d EXCEPT !.pending = ClearTimeout(@, d.handle)
                              \cup {[id |-> d.ids + 1, due |-> d.now + DebounceSteps]},
              !.handle = d.ids + 1,
              !.ids = @ + 1,
              !.last = d.now,
              !.fires = IF d.pending = {} THEN 0 ELSE @]

\* a handler calls debouncedSyncFromDatabase (after a write of the SQL
\* terminal, of the worker, of a bot)
RequestSync ==
    /\ deb.ids < MaxCalls
    /\ deb.now + DebounceSteps <= MaxTime
    /\ deb' = Debounce(deb)
    /\ cdc' = [cdc EXCEPT !.dirty = TRUE, !.timer = TRUE]
    /\ ev' = NoEv
    /\ UNCHANGED <<lockVars, proc, conf, db, sheet, sheetUp, dbUp, poll, sync, kv, budget,
                   hist, off, hook>>

\* time passes; a timer that is due fires first
TimePasses ==
    /\ deb.now < MaxTime
    /\ \A t \in deb.pending : t.due > deb.now
    /\ deb' = [deb EXCEPT !.now = @ + 1]
    /\ ev' = NoEv
    /\ UNCHANGED <<lockVars, proc, conf, db, sheet, sheetUp, dbUp, cdc, poll, sync, kv, budget,
                   hist, off, hook>>

(* --------------------------- configuration ---------------------------- *)
\* process.env.POLL_INTERVAL: not set, or a string of digits
Unset == -1
EnvVals == {Unset} \cup {k * 100 : k \in 0..MaxInterval}
\* parseInt(process.env.POLL_INTERVAL || '3000'); the empty string does not
\* occur among EnvVals
ParseEnv(e) == IF e = Unset THEN 3000 ELSE e
\* const POLL_INTERVAL = Math.max(3000, parseInt(...))
POLL_INTERVAL(e) == Max({3000, ParseEnv(e)})
\* interval: the delay given to setInterval, 0 before start();
\* reported: the pollInterval of the last GET /status, Unset before
NoConf == [env |-> Unset, interval |-> 0, reported |-> Unset]

\* start(): setInterval(() => pollForChanges(), POLL_INTERVAL)
Start ==
    /\ conf.interval = 0
    /\ conf' = [conf EXCEPT !.interval = POLL_INTERVAL(conf.env)]
    /\ UNCHANGED <<lockVars, proc, deb, db, ev, sheet, sheetUp, dbUp, cdc, poll, sync, kv,
                   budget, hist, off, hook>>

\* GET /status: pollInterval: parseInt(process.env.POLL_INTERVAL || '3000')
GetStatus ==
    /\ conf.reported # ParseEnv(conf.env)
    /\ conf' = [conf EXCEPT !.reported = ParseEnv(conf.env)]
    /\ UNCHANGED <<lockVars, proc, deb, db, ev, sheet, sheetUp, dbUp, cdc, poll, sync, kv,
                   budget, hist, off, hook>>

\* the server with each configured interval
InitConfig ==
    /\ lock = [a \in Addrs |-> FreeLock]
    /\ rq = [r \in Reqs |-> IdleReq]
    /\ db = NoRows
    /\ holders = [a \in Addrs |-> {}]
    /\ ev = NoEv
    /\ simul = TRUE
    /\ sheet = EmptySheet
    /\ sheetUp = TRUE
    /\ dbUp = TRUE
    /\ cdc = NewCdc
    /\ poll = IdlePoll
    /\ sync = NoPasses
    /\ kv = EmptyKv
    /\ budget = NoBudget
    /\ hist = NoHist
    /\ off = {}
    /\ hook = {}
    /\ conf \in {[NoConf EXCEPT !.env = e] : e \in EnvVals}
    /\ proc = NoProc
    /\ deb = NoDeb

NextConfig ==
    \/ Start
    \/ GetStatus

SpecConfig == InitConfig /\ [][NextConfig]_vars

(* ------------------------------ startup ------------------------------- *)
\* initialize(): authorize, loadSnapshotFromRedis, loadInitialSnapshot (fetch,
\* merge into lastSnapshot, syncToDatabase).  When Google cannot be reached
\* the monitor starts from the cached snapshot, and not at all without one.
Boot ==
    /\ cdc.phase = "boot"
    /\ LET loaded == IF kv.hasSnap THEN kv.snap ELSE EmptySnap
           st0 == [Cur EXCEPT !.cdc.lastSnapshot = loaded] IN
       IF ~sheetUp
       THEN /\ kv.hasSnap
            /\ Commit([st0 EXCEPT !.cdc.sheetOnline = FALSE, !.cdc.phase = "replay"])
       ELSE \E out \in FetchOutcomes :
              LET f == FetchSheetData(st0, out)
                  merged == [a \in Addrs |-> IF f.data[a] # Absent THEN f.data[a]
                                             ELSE loaded[a]]
              IN IF f.ok
                 THEN Commit([SyncToDatabase(f.st, f.data) EXCEPT
                                 !.cdc.lastSnapshot = merged, !.cdc.phase = "replay"])
                 ELSE Commit([f.st EXCEPT !.cdc.phase = "replay"])
    /\ UNCHANGED <<lockVars, proc, conf, deb, sheetUp, dbUp, poll, sync, off, hook>>

\* processPendingChangesOnStartup(), then start()
BootReplay ==
    /\ cdc.phase = "replay"
    /\ LET st1 == ProcessPendingChanges(Cur, "db", dbUp)
           st2 == ProcessPendingChanges(st1, "sheet", sheetUp)
       IN Commit([st2 EXCEPT !.cdc.phase = "running"])
    /\ UNCHANGED <<lockVars, proc, conf, deb, sheetUp, dbUp, poll, sync, off, hook>>

(* ------------------------------ poll loop ----------------------------- *)
\* the interval fires: isPollInProgress, checkConnectivity, fetchSheetData
PollStart ==
    /\ cdc.phase = "running"
    /\ ~poll.busy
    /\ \E out \in FetchOutcomes :
         LET f == FetchSheetData(CheckConnectivity(Cur), out)
             entered == [poll EXCEPT !.busy = TRUE, !.n = @ + 1]
         IN
         /\ Commit(f.st)
         /\ poll' = IF f.ok
                    THEN [entered EXCEPT
                            !.pc = "fetched", !.cur = f.data, !.todo = <<>>,
                            !.own = {a \in Addrs : /\ hist.ours[a] # Absent
                                                   /\ Get(f.data, a) = hist.ours[a]}]
                    ELSE Finally(entered)
    /\ UNCHANGED <<lockVars, proc, conf, deb, sheetUp, dbUp, sync, off, hook>>

\* the interval fires while a poll is in progress: pollForChanges returns at
\* its first line
PollTick ==
    /\ cdc.phase = "running"
    /\ poll.busy
    /\ ev' = [NoEv EXCEPT !.op = "tick"]
    /\ UNCHANGED <<lockVars, proc, conf, deb, db, sheet, sheetUp, dbUp, cdc, poll, sync, kv, budget,
                   hist, off, hook>>

\* the snapshot is saved to Redis, then the diff against lastSnapshot; with
\* no change the poll ends with lastSnapshot = currentData
PollDiff ==
    /\ poll.pc = "fetched"
    /\ LET changes == DiffChanges(poll.cur, cdc.lastSnapshot)
           stale == {a \in Addrs : /\ hist.pushed[a] # Absent
                                   /\ Get(cdc.lastSnapshot, a) # hist.pushed[a]}
       IN /\ ev' = DiffEv(SeqRange(changes), stale)
          /\ hist' = [hist EXCEPT !.pushed = EmptySnap]
          /\ IF changes = <<>>
             THEN /\ cdc' = [cdc EXCEPT !.lastSnapshot = poll.cur]
                  /\ poll' = Finally(poll)
             ELSE /\ poll' = [poll EXCEPT !.pc = "apply", !.todo = changes]
                  /\ UNCHANGED cdc
    /\ UNCHANGED <<lockVars, proc, conf, deb, db, sheet, sheetUp, dbUp, sync, kv, budget, off, hook>>

\* what the poll does after its last change: this.lastSnapshot = currentData
SnapshotKept(last, cur) == last
SnapshotAfterPoll(last, cur) == cur

\* one change of the loop: set the ignore key, then DELETE or upsert with
\* origin 'sheet'; queue the change when the store is offline, drop it on
\* another store error
PollApply ==
    /\ poll.pc = "apply"
    /\ LET a == Head(poll.todo)
           v == Get(poll.cur, a)
           rest == Tail(poll.todo)
           marks == IF "ignore" \in off THEN kv.ignore ELSE kv.ignore \cup {a}
           snap == IF rest = <<>> THEN SnapshotAfterPoll(cdc.lastSnapshot, poll.cur)
                   ELSE cdc.lastSnapshot
           applied == a \in hist.fresh /\ a \notin hist.touched /\ sheet[a] = v
       IN /\ \/ /\ dbUp
                /\ db' = IF v = "" THEN Delete(db, a) ELSE Upsert(db, a, v, "sheet")
                /\ cdc' = [cdc EXCEPT !.dbOnline = TRUE, !.lastSnapshot = snap]
                /\ kv' = [kv EXCEPT !.ignore = marks]
                /\ ev' = WriteEv(a, "cdc", "sheet", FALSE, a \in marks)
                /\ hist' = [hist EXCEPT !.n = Bump(@, {a}),
                                        !.fresh = IF sheet[a] = v THEN @ \ {a} ELSE @,
                                        !.quiet = IF applied THEN @ \cup {a} ELSE @]
                /\ UNCHANGED budget
             \/ /\ ~dbUp
                /\ cdc' = [cdc EXCEPT !.dbOnline = FALSE, !.lastSnapshot = snap]
                /\ kv' = [kv EXCEPT !.ignore = marks,
                                    !.pendingToDb =
                                        QueuePendingChange(@, <<[addr |-> a, value |-> v,
                                                                 source |-> "sheet"]>>)]
                /\ ev' = NoEv
                /\ UNCHANGED <<db, hist, budget>>
             \/ /\ dbUp /\ budget.faults > 0
                /\ cdc' = [cdc EXCEPT !.lastSnapshot = snap]
                /\ kv' = [kv EXCEPT !.ignore = marks]
                /\ budget' = [budget EXCEPT !.faults = @ - 1]
                /\ ev' = NoEv
                /\ UNCHANGED <<db, hist>>
          /\ poll' = IF rest = <<>> THEN Finally(poll) ELSE [poll EXCEPT !.todo = rest]
    /\ UNCHANGED <<lockVars, proc, conf, deb, sheet, sheetUp, dbUp, sync, off, hook>>

\* an exception inside the try block of pollForChanges: the catch block
\* marks the sheet offline for a connection reset and logs anything else;
\* line 588 is not reached
PollThrows ==
    /\ poll.pc \in {"fetched", "apply"}
    /\ budget.faults > 0
    /\ \E reset \in BOOLEAN :
         cdc' = IF reset THEN [cdc EXCEPT !.sheetOnline = FALSE] ELSE cdc
    /\ poll' = Finally(poll)
    /\ budget' = [budget EXCEPT !.faults = @ - 1]
    /\ ev' = NoEv
    /\ UNCHANGED <<lockVars, proc, conf, deb, db, sheet, sheetUp, dbUp, sync, kv, hist, off, hook>>

(* --------------------------- outbound sync ---------------------------- *)
\* syncFromDatabase up to the read of the table: nothing when the flag is
\* clear; the cached rows when the store is offline
PassBegin(st, p) ==
    IF ~st.cdc.dirty THEN Commit(st) /\ UNCHANGED sync
    ELSE IF dbUp
    THEN LET st1 == [st EXCEPT !.cdc.dirty = FALSE]
             st2 == IF ~st1.cdc.dbOnline
                    THEN ProcessPendingChanges([st1 EXCEPT !.cdc.dbOnline = TRUE],
                                               "db", dbUp)
                    ELSE st1
         IN /\ Commit([st2 EXCEPT !.kv.dbSnap = st.db])
            /\ sync' = [sync EXCEPT ![p] = [IdleSync EXCEPT !.pc = "read", !.rows = st.db]]
    ELSE /\ Commit([st EXCEPT !.cdc.dirty = FALSE, !.cdc.dbOnline = FALSE])
         /\ sync' = IF st.kv.dbSnap = NoRows THEN sync
                    ELSE [sync EXCEPT ![p] = [IdleSync EXCEPT !.pc = "read",
                                                               !.rows = st.kv.dbSnap]]

\* the debounce timer set by debouncedSyncFromDatabase fires
TimerFires ==
    /\ cdc.timer
    /\ \E p \in Passes : FreeSlot(p) /\ PassBegin([Cur EXCEPT !.cdc.timer = FALSE], p)
    /\ UNCHANGED <<lockVars, proc, conf, deb, sheetUp, dbUp, poll, off, hook>>

\* a timer of debouncedSyncFromDatabase is due: its callback awaits
\* syncFromDatabase
DebounceFires ==
    /\ \E t \in deb.pending :
         /\ t.due = deb.now
         /\ deb' = [deb EXCEPT !.pending = @ \ {t}, !.fires = @ + 1,
                               !.firedAt = deb.now]
         /\ \E p \in Passes :
              /\ FreeSlot(p)
              /\ PassBegin([Cur EXCEPT !.cdc.timer = (deb.pending # {t})], p)
    /\ UNCHANGED <<lockVars, proc, conf, sheetUp, dbUp, poll, off, hook>>

\* syncFromDatabase called directly: POST /force-sync, end of a bot simulation
ForceSync ==
    /\ cdc.phase = "running"
    /\ cdc.dirty
    /\ \E p \in Passes : FreeSlot(p) /\ PassBegin(Cur, p)
    /\ UNCHANGED <<lockVars, proc, conf, deb, sheetUp, dbUp, poll, off, hook>>

\* the sheet is read and the batch is built; without sheet data every row
\* not tagged 'sheet' is queued
SyncFetch(p) ==
    /\ sync[p].pc = "read"
    /\ \E out \in (IF cdc.sheetOnline THEN FetchOutcomes ELSE {"skip"}) :
         LET f == FetchSheetData(Cur, out)
             upd == Updates(sync[p].rows, f.data)
         IN IF f.ok
            THEN /\ Commit([f.st EXCEPT !.ev = [BuiltEv(Pushes(sync[p].rows, f.data))
                                                 EXCEPT !.api = f.st.ev.api]])
                 /\ sync' = IF upd = EmptySnap THEN [sync EXCEPT ![p] = IdleSync]
                            ELSE [sync EXCEPT ![p].pc = "built", ![p].updates = upd,
                                              ![p].synced = Pushes(sync[p].rows, f.data)]
            ELSE /\ Commit([f.st EXCEPT
                               !.kv.pendingToSheet =
                                   QueuePendingChange(@, QueueRows(sync[p].rows)),
                               !.hist.owed = @ \cup AddrsOf(QueueRows(sync[p].rows))])
                 /\ sync' = [sync EXCEPT ![p] = IdleSync]
    /\ UNCHANGED <<lockVars, proc, conf, deb, sheetUp, dbUp, poll, off, hook>>

\* spreadsheets.values.batchUpdate: applied, or it fails and the synced
\* cells are queued with source 'db_sync'
\* history: the cell holds a remote edit that no poll has fetched
Unobserved(a) ==
    /\ a \in hist.fresh
    /\ Get(cdc.lastSnapshot, a) # sheet[a]
    /\ poll.pc = "idle" \/ Get(poll.cur, a) # sheet[a]
SyncPush(p) ==
    /\ sync[p].pc = "built"
    /\ LET cells == {a \in Addrs : sync[p].updates[a] # Absent}
           lost == {a \in cells : /\ Unobserved(a) /\ a \notin hist.touched
                                   /\ sync[p].updates[a] # sheet[a]}
       IN
       \/ /\ sheetUp
          /\ sheet' = Overlay(sheet, sync[p].updates, cells)
          /\ cdc' = [cdc EXCEPT !.sheetOnline = TRUE]
          /\ hist' = [hist EXCEPT !.ours = Overlay(@, sync[p].updates, cells),
                                  !.pushed = Overlay(@, sync[p].updates, cells),
                                  !.n = Bump(@, cells)]
          /\ ev' = [BatchEv(cells, TRUE) EXCEPT !.lost = lost]
          /\ sync' = IF sync[p].synced = {} THEN [sync EXCEPT ![p] = IdleSync]
                     ELSE [sync EXCEPT ![p].pc = "pushed"]
          /\ UNCHANGED <<kv, budget>>
       \/ /\ ~sheetUp \/ budget.faults > 0
          /\ cdc' = [cdc EXCEPT !.sheetOnline = FALSE]
          /\ kv' = [kv EXCEPT !.pendingToSheet =
                                  QueuePendingChange(@, QueueSynced(sync[p].updates,
                                                                    sync[p].synced))]
          /\ budget' = IF sheetUp THEN [budget EXCEPT !.faults = @ - 1] ELSE budget
          /\ ev' = BatchEv(cells, FALSE)
          /\ hist' = [hist EXCEPT !.owed = @ \cup sync[p].synced]
          /\ sync' = [sync EXCEPT ![p] = IdleSync]
          /\ UNCHANGED sheet
    /\ UNCHANGED <<lockVars, proc, conf, deb, db, sheetUp, dbUp, poll, off, hook>>

\* after the batch: the synced rows get origin 'sheet' (store errors are
\* swallowed) and their values are written through to lastSnapshot
WriteThrough(last, upd, synced) ==
    IF "snapshot" \in off THEN last ELSE Overlay(last, upd, synced)
SyncRewrite(p) ==
    /\ sync[p].pc = "pushed"
    /\ db' = IF dbUp
             THEN [a \in Addrs |->
                     IF a \in sync[p].synced /\ db[a] # NoRow /\ db[a].origin # "sheet"
                     THEN [db[a] EXCEPT !.origin = "sheet"] ELSE db[a]]
             ELSE db
    /\ cdc' = [cdc EXCEPT !.lastSnapshot = WriteThrough(@, sync[p].updates, sync[p].synced)]
    /\ sync' = [sync EXCEPT ![p] = IdleSync]
    /\ ev' = NoEv
    /\ UNCHANGED <<lockVars, proc, conf, deb, sheet, sheetUp, dbUp, poll, kv, budget, hist, off, hook>>

(* ---------------------------- environment ----------------------------- *)
AfterInput(h) == [h EXCEPT !.quiet = {}, !.n = [a \in Addrs |-> 0]]

\* somebody types v into cell a of the sheet
Typed(a, v) ==
    /\ budget.edits > 0
    /\ sheet[a] # v
    /\ sheet' = [sheet EXCEPT ![a] = v]
    /\ budget' = [budget EXCEPT !.edits = @ - 1]
    /\ hist' = [AfterInput(hist) EXCEPT !.fresh = @ \cup {a}, !.ours[a] = Absent]
    /\ ev' = NoEv
    /\ UNCHANGED <<lockVars, proc, conf, deb, db, sheetUp, dbUp, cdc, poll, sync, kv, off>>

\* an edit of a sheet without the edit trigger
RemoteEdit(a, v) ==
    /\ Typed(a, v)
    /\ UNCHANGED hook

\* an edit of a sheet whose edit trigger posts the edit to /webhook
NotifiedEdit(a, v) ==
    /\ Typed(a, v)
    /\ hook' = hook \cup {[addr |-> a, value |-> v, queued |-> FALSE]}

\* the sheet-update job of the worker: the cell is written with origin
\* 'user' (under the cell lock) and the `completed` event calls
\* debouncedSyncFromDatabase
SheetUpdateJob(a, v) ==
    /\ db' = Upsert(db, a, v, "user")
    /\ cdc' = [cdc EXCEPT !.dirty = TRUE, !.timer = TRUE]
    /\ ev' = WriteEv(a, "worker", "user", TRUE, a \in kv.ignore)

\* POST /webhook from a client of the API: dropped when the ignore key of the
\* cell exists, else the job is queued and run
Webhook(a, v) ==
    /\ cdc.phase = "running"
    /\ budget.writes > 0
    /\ dbUp
    /\ a \notin kv.ignore
    /\ SheetUpdateJob(a, v)
    /\ budget' = [budget EXCEPT !.writes = @ - 1]
    /\ hist' = [AfterInput(hist) EXCEPT !.touched = @ \cup {a}]
    /\ UNCHANGED <<lockVars, proc, conf, deb, sheet, sheetUp, dbUp, poll, sync, kv, off, hook>>

\* POST /webhook from the sheet's edit trigger
Notify ==
    /\ cdc.phase = "running"
    /\ dbUp
    /\ \E e \in hook :
         /\ ~e.queued
         /\ hook' = hook \ {e}
         /\ IF e.addr \in kv.ignore
            THEN /\ ev' = NoEv
                 /\ UNCHANGED <<db, cdc, hist>>
            ELSE /\ SheetUpdateJob(e.addr, e.value)
                 /\ hist' = [hist EXCEPT !.n = Bump(@, {e.addr})]
    /\ UNCHANGED <<lockVars, proc, conf, deb, sheet, sheetUp, dbUp, poll, sync, kv, budget, off>>

\* POST /webhook from the sheet's edit trigger, the handler alone: the
\* request is answered "ignored" when the ignore key of the cell exists,
\* else the job is added to the sheet-update queue
HandleWebhook ==
    /\ cdc.phase = "running"
    /\ \E e \in hook :
         /\ ~e.queued
         /\ hook' = IF e.addr \in kv.ignore THEN hook \ {e}
                    ELSE (hook \ {e}) \cup {[e EXCEPT !.queued = TRUE]}
    /\ ev' = NoEv
    /\ UNCHANGED <<lockVars, proc, conf, deb, db, sheet, sheetUp, dbUp, cdc, poll, sync, kv,
                   budget, hist, off>>

\* the worker takes a job from the sheet-update queue
WorkerJob ==
    /\ cdc.phase = "running"
    /\ dbUp
    /\ \E e \in hook :
         /\ e.queued
         /\ hook' = hook \ {e}
         /\ SheetUpdateJob(e.addr, e.value)
         /\ hist' = [hist EXCEPT !.n = Bump(@, {e.addr})]
    /\ UNCHANGED <<lockVars, proc, conf, deb, sheet, sheetUp, dbUp, poll, sync, kv, budget, off>>

\* POST /bot/simulate: the bot's task writes the cell with the bot's name as
\* origin (under the cell lock), then runBotSimulation calls
\* syncFromDatabase
BotSimulation(a) ==
    /\ cdc.phase = "running"
    /\ budget.writes > 0
    /\ dbUp
    /\ LET bot == "Bot-Alpha"
           st == [Cur EXCEPT
                    !.db = Upsert(db, a, ValOf(bot), OriginOf(bot)),
                    !.budget.writes = @ - 1,
                    !.hist = [AfterInput(hist) EXCEPT !.touched = @ \cup {a}],
                    !.ev = WriteEv(a, bot, OriginOf(bot), TRUE, FALSE)]
       IN \E p \in Passes : FreeSlot(p) /\ PassBegin(st, p)
    /\ UNCHANGED <<lockVars, proc, conf, deb, sheetUp, dbUp, poll, off, hook>>

\* a DELETE statement from the SQL terminal, then debouncedSyncFromDatabase
SqlDelete(a) ==
    /\ cdc.phase = "running"
    /\ budget.writes > 0
    /\ dbUp
    /\ Exists(db, a)
    /\ db' = Delete(db, a)
    /\ cdc' = [cdc EXCEPT !.dirty = TRUE, !.timer = TRUE]
    /\ budget' = [budget EXCEPT !.writes = @ - 1]
    /\ hist' = [AfterInput(hist) EXCEPT !.touched = @ \cup {a}]
    /\ ev' = NoEv
    /\ UNCHANGED <<lockVars, proc, conf, deb, sheet, sheetUp, dbUp, poll, sync, kv, off, hook>>

SheetDown ==
    /\ sheetUp /\ budget.faults > 0
    /\ sheetUp' = FALSE
    /\ budget' = [budget EXCEPT !.faults = @ - 1]
    /\ ev' = NoEv
    /\ UNCHANGED <<lockVars, proc, conf, deb, db, sheet, dbUp, cdc, poll, sync, kv, hist, off, hook>>
SheetBack ==
    /\ ~sheetUp
    /\ sheetUp' = TRUE
    /\ ev' = NoEv
    /\ UNCHANGED <<lockVars, proc, conf, deb, db, sheet, dbUp, cdc, poll, sync, kv, budget, hist, off, hook>>
DbDown ==
    /\ dbUp /\ budget.faults > 0
    /\ dbUp' = FALSE
    /\ budget' = [budget EXCEPT !.faults = @ - 1]
    /\ ev' = NoEv
    /\ UNCHANGED <<lockVars, proc, conf, deb, db, sheet, sheetUp, cdc, poll, sync, kv, hist, off, hook>>
DbBack ==
    /\ ~dbUp
    /\ dbUp' = TRUE
    /\ ev' = NoEv
    /\ UNCHANGED <<lockVars, proc, conf, deb, db, sheet, sheetUp, cdc, poll, sync, kv, budget, hist, off, hook>>

\* Date.now() passes rateLimitedUntil
BackoffOver ==
    /\ cdc.limited
    /\ cdc' = [cdc EXCEPT !.limited = FALSE, !.window = 0]
    /\ ev' = NoEv
    /\ UNCHANGED <<lockVars, proc, conf, deb, db, sheet, sheetUp, dbUp, poll, sync, kv, budget, hist, off, hook>>

\* an ignore key reaches its TTL (EX 10)
IgnoreExpires(a) ==
    /\ a \in kv.ignore
    /\ kv' = [kv EXCEPT !.ignore = @ \ {a}]
    /\ ev' = NoEv
    /\ UNCHANGED <<lockVars, proc, conf, deb, db, sheet, sheetUp, dbUp, cdc, poll, sync, budget, hist, off, hook>>

\* the process is stopped and started again: Redis and the table stay
Restart ==
    /\ cdc.phase = "running"
    /\ budget.faults > 0
    /\ cdc' = NewCdc
    /\ poll' = IdlePoll
    /\ sync' = NoPasses
    /\ budget' = [budget EXCEPT !.faults = @ - 1]
    /\ ev' = NoEv
    /\ UNCHANGED <<lockVars, proc, conf, deb, db, sheet, sheetUp, dbUp, kv, hist, off, hook>>

\* processPendingChanges runs for a list at startup, and when a call finds
\* the peer reachable while its flag says offline
DrainRuns(target) ==
    \/ cdc.phase = "replay"
    \/ /\ cdc.phase = "running"
       /\ IF target = "sheet" THEN sheetUp /\ ~cdc.sheetOnline /\ ~cdc.limited
          ELSE dbUp /\ ~cdc.dbOnline

\* the process dies in processPendingChanges between the lpop of an entry and
\* the end of its replay; it is started again
CrashInDrain ==
    /\ budget.faults > 0
    /\ \/ /\ DrainRuns("db") /\ kv.pendingToDb # <<>>
          /\ kv' = [kv EXCEPT !.pendingToDb = Tail(@)]
       \/ /\ DrainRuns("sheet") /\ kv.pendingToSheet # <<>>
          /\ kv' = [kv EXCEPT !.pendingToSheet = Tail(@)]
    /\ cdc' = NewCdc
    /\ poll' = IdlePoll
    /\ sync' = NoPasses
    /\ budget' = [budget EXCEPT !.faults = @ - 1]
    /\ ev' = NoEv
    /\ UNCHANGED <<lockVars, proc, conf, deb, db, sheet, sheetUp, dbUp, hist, off, hook>>

(* ------------------------------ shutdown ------------------------------ *)
\* SIGTERM or SIGINT, or the uncaughtException raised for the rejected
\* promise of an earlier call: gracefulShutdown runs up to its first await.
\* cdcMonitor.stop() clears the poll interval and isRunning;
\* sheetUpdateWorker.close() is called.
GracefulShutdown ==
    /\ \/ proc.pc = "up" /\ cdc.phase = "running"
       \/ proc.pc = "rejected"
    /\ proc' = [proc EXCEPT !.pc = "worker", !.attempted = @ \cup {"stop", "worker"},
                            !.closed = @ \cup {"stop"}]
    /\ cdc' = [cdc EXCEPT !.phase = "stopped"]
    /\ ev' = NoEv
    /\ UNCHANGED <<lockVars, conf, deb, db, sheet, sheetUp, dbUp, poll, sync, kv, budget,
                   hist, off, hook>>

\* an awaited call of gracefulShutdown returns and the next line runs, or it
\* throws: the function has no try block, so its promise is rejected and
\* the lines that follow are not run
Awaited(step, next) ==
    /\ proc.pc = step
    /\ \/ /\ proc' = [proc EXCEPT !.pc = next, !.closed = @ \cup {step},
                                   !.attempted = @ \cup {next}]
          /\ UNCHANGED budget
       \/ /\ budget.faults > 0
          /\ proc' = [proc EXCEPT !.pc = "rejected"]
          /\ budget' = [budget EXCEPT !.faults = @ - 1]
    /\ ev' = NoEv
    /\ UNCHANGED <<lockVars, conf, deb, db, sheet, sheetUp, dbUp, cdc, poll, sync, kv,
                   hist, off, hook>>

\* await sheetUpdateWorker.close(), then pool.end() is called
WorkerClosed == Awaited("worker", "pool")
\* await pool.end(), then redisClient.quit() is called
PoolEnded == Awaited("pool", "kv")

\* await redisClient.quit(), then process.exit(0): the process and what it
\* held in memory, timers included, are gone
KvQuit ==
    /\ proc.pc = "kv"
    /\ \/ /\ proc' = [proc EXCEPT !.pc = "exited", !.closed = @ \cup {"kv"}, !.code = 0]
          /\ cdc' = [NewCdc EXCEPT !.phase = "exited"]
          /\ poll' = IdlePoll
          /\ sync' = NoPasses
          /\ UNCHANGED budget
       \/ /\ budget.faults > 0
          /\ proc' = [proc EXCEPT !.pc = "rejected"]
          /\ budget' = [budget EXCEPT !.faults = @ - 1]
          /\ UNCHANGED <<cdc, poll, sync>>
    /\ ev' = NoEv
    /\ UNCHANGED <<lockVars, conf, deb, db, sheet, sheetUp, dbUp, kv, hist, off, hook>>

\* pool.end() has not been called: the statements of the monitor reach MySQL
PoolOpen == "pool" \notin proc.attempted

\* the sheet at the first start: empty, or one filled cell
InitSheets == {EmptySheet, [EmptySheet EXCEPT ![Key(1, 1)] = "x"]}

InitIdle ==
    /\ lock = [a \in Addrs |-> FreeLock]
    /\ rq = [r \in Reqs |-> IdleReq]
    /\ db = NoRows
    /\ holders = [a \in Addrs |-> {}]
    /\ ev = NoEv
    /\ simul = TRUE
    /\ sheetUp = TRUE
    /\ dbUp = TRUE
    /\ cdc = NewCdc
    /\ poll = IdlePoll
    /\ sync = NoPasses
    /\ kv = EmptyKv
    /\ hist = NoHist
    /\ hook = {}
    /\ conf = NoConf
    /\ proc = NoProc
    /\ deb = NoDeb

Init ==
    /\ InitIdle
    /\ sheet \in InitSheets
    /\ budget = [edits |-> MaxEdits, writes |-> MaxWrites, faults |-> MaxFaults]
    /\ off = {}

Next ==
    \/ Boot
    \/ BootReplay
    \/ PollStart
    \/ PollDiff
    \/ PollApply
    \/ TimerFires
    \/ ForceSync
    \/ \E p \in Passes : SyncFetch(p)
    \/ \E p \in Passes : SyncPush(p)
    \/ \E p \in Passes : SyncRewrite(p)
    \/ \E a \in Addrs, v \in RemoteVals : RemoteEdit(a, v)
    \/ \E a \in Addrs, v \in LocalVals : Webhook(a, v)
    \/ \E a \in Addrs : SqlDelete(a)
    \/ SheetDown
    \/ SheetBack
    \/ DbDown
    \/ DbBack
    \/ BackoffOver
    \/ \E a \in Addrs : IgnoreExpires(a)
    \/ Restart

Spec == Init /\ [][Next]_vars

\* The monitor under its schedulers: the poll interval and the debounce
\* timer fire, every awaited call returns, the backoff window and the TTL of
\* an ignore key run out, and a peer that went away comes back.  Inputs and
\* faults are limited by the budget, so they stop.
Running ==
    /\ WF_vars(Boot) /\ WF_vars(BootReplay)
    /\ WF_vars(PollStart) /\ WF_vars(PollDiff) /\ WF_vars(PollApply)
    /\ WF_vars(TimerFires)
    /\ WF_vars(\E p \in Passes : SyncFetch(p))
    /\ WF_vars(\E p \in Passes : SyncPush(p))
    /\ WF_vars(\E p \in Passes : SyncRewrite(p))
    /\ WF_vars(SheetBack) /\ WF_vars(DbBack) /\ WF_vars(BackoffOver)
    /\ WF_vars(\E a \in Addrs : IgnoreExpires(a))

NextLive ==
    \/ Next
    \/ \E a \in Addrs : BotSimulation(a)

SpecLive == Init /\ [][NextLive]_vars /\ Running

\* The poll loop alone: one edit typed into the sheet and one fault, with the
\* interval firing at any time.
InitPoll ==
    /\ InitIdle
    /\ sheet \in InitSheets
    /\ budget = [edits |-> 1, writes |-> 0, faults |-> 1]
    /\ off = {}

NextPoll ==
    \/ Boot
    \/ BootReplay
    \/ PollStart
    \/ PollTick
    \/ PollDiff
    \/ PollApply
    \/ PollThrows
    \/ \E a \in Addrs, v \in RemoteVals : RemoteEdit(a, v)
    \/ SheetDown
    \/ SheetBack
    \/ DbDown
    \/ DbBack
    \/ BackoffOver

SpecPoll == InitPoll /\ [][NextPoll]_vars

\* A poll that has fetched currentData, for every pair of currentData and
\* lastSnapshot.
InitFetched ==
    /\ lock = [a \in Addrs |-> FreeLock]
    /\ rq = [r \in Reqs |-> IdleReq]
    /\ db = NoRows
    /\ holders = [a \in Addrs |-> {}]
    /\ ev = NoEv
    /\ simul = TRUE
    /\ sheetUp = TRUE
    /\ dbUp = TRUE
    /\ sheet \in {sh \in [Addrs -> CellVals] : CellMap(sh) \in DiffSnaps}
    /\ \E last \in DiffSnaps :
          cdc = [NewCdc EXCEPT !.phase = "running", !.lastSnapshot = last]
    /\ poll = [IdlePoll EXCEPT !.pc = "fetched", !.cur = CellMap(sheet),
                               !.busy = TRUE, !.n = 1]
    /\ sync = NoPasses
    /\ kv = [EmptyKv EXCEPT !.hasSnap = TRUE, !.snap = cdc.lastSnapshot]
    /\ hist = NoHist
    /\ hook = {}
    /\ conf = NoConf
    /\ proc = NoProc
    /\ deb = NoDeb
    /\ off = {}

\* The diff of a poll for every pair of snapshots, and its changes applied
\* to a table that can be reached.
InitDiff ==
    /\ InitFetched
    /\ budget = NoBudget

NextDiff ==
    \/ PollDiff
    \/ PollApply

SpecDiff == InitDiff /\ [][NextDiff]_vars

\* The changes of a poll applied to a table that may go away and come back
\* and whose statements may fail.
InitApply ==
    /\ InitFetched
    /\ budget = [edits |-> 0, writes |-> 0, faults |-> MaxFaults]

NextApply ==
    \/ PollDiff
    \/ PollApply
    \/ DbDown
    \/ DbBack

SpecApply == InitApply /\ [][NextApply]_vars

\* The debounce timer on its clock: calls of debouncedSyncFromDatabase at any
\* time, the passes the timer starts.  The clock does not pass a timer that
\* is due, and it advances otherwise.
InitDebounce ==
    /\ InitIdle
    /\ sheet = EmptySheet
    /\ budget = NoBudget
    /\ off = {}

NextDebounce ==
    \/ Boot
    \/ BootReplay
    \/ RequestSync
    \/ TimePasses
    \/ DebounceFires
    \/ \E p \in Passes : SyncFetch(p)

FairDebounce ==
    /\ WF_vars(TimePasses) /\ WF_vars(DebounceFires)
    /\ WF_vars(\E p \in Passes : SyncFetch(p))

SpecDebounce == InitDebounce /\ [][NextDebounce]_vars /\ FairDebounce

\* The monitor against a Sheets API that answers a read with 429 up to
\* MaxLimits times, in a row or with successful reads in between; reads are
\* made by the polls and by the pass that follows a local write.
InitBackoff ==
    /\ InitIdle
    /\ sheet \in InitSheets
    /\ budget = [edits |-> 0, writes |-> MaxWrites, faults |-> MaxLimits]
    /\ off = {}

NextBackoff ==
    \/ Boot
    \/ BootReplay
    \/ PollStart
    \/ PollDiff
    \/ PollApply
    \/ BackoffOver
    \/ \E v \in LocalVals : Webhook(Key(1, 1), v)
    \/ TimerFires
    \/ \E p \in Passes : SyncFetch(p)
    \/ \E p \in Passes : SyncPush(p)
    \/ \E p \in Passes : SyncRewrite(p)

SpecBackoff == InitBackoff /\ [][NextBackoff]_vars

\* A pass that has read the table, for every table and every sheet over
\* DiffCells: rows written locally or by the monitor, with a value or with
\* the empty value.  The read of the sheet can be answered with 429 and the
\* batch can fail.
PassRows ==
    LET row == {NoRow} \cup [value : CellVals, origin : {"sheet", "user"}] IN
    {d \in [Addrs -> row] : \A a \in Addrs \ DiffCells : d[a] = NoRow}
InitPass ==
    /\ lock = [a \in Addrs |-> FreeLock]
    /\ rq = [r \in Reqs |-> IdleReq]
    /\ db \in PassRows
    /\ holders = [a \in Addrs |-> {}]
    /\ ev = NoEv
    /\ simul = TRUE
    /\ sheetUp = TRUE
    /\ dbUp = TRUE
    /\ sheet \in {sh \in [Addrs -> CellVals] : CellMap(sh) \in DiffSnaps}
    /\ cdc = [NewCdc EXCEPT !.phase = "running", !.lastSnapshot = CellMap(sheet)]
    /\ poll = IdlePoll
    /\ sync = [NoPasses EXCEPT ![1] = [IdleSync EXCEPT !.pc = "read", !.rows = db]]
    /\ kv = [EmptyKv EXCEPT !.hasSnap = TRUE, !.snap = CellMap(sheet), !.dbSnap = db]
    /\ budget = [edits |-> 0, writes |-> 0, faults |-> MaxFaults]
    /\ hist = NoHist
    /\ hook = {}
    /\ conf = NoConf
    /\ proc = NoProc
    /\ deb = NoDeb
    /\ off = {}

NextPass ==
    \/ \E p \in Passes : SyncFetch(p)
    \/ \E p \in Passes : SyncPush(p)
    \/ \E p \in Passes : SyncRewrite(p)

SpecPass == InitPass /\ [][NextPass]_vars

\* Edits of a sheet whose edit trigger posts them to /webhook, with the job
\* queue between handleWebhook and the worker, next to the poll loop.
InitIngress ==
    /\ InitIdle
    /\ sheet \in InitSheets
    /\ budget = [edits |-> MaxEdits, writes |-> 0, faults |-> 0]
    /\ off = {}

NextIngress ==
    \/ Boot
    \/ BootReplay
    \/ PollStart
    \/ PollDiff
    \/ PollApply
    \/ \E a \in Addrs, v \in RemoteVals : NotifiedEdit(a, v)
    \/ HandleWebhook
    \/ WorkerJob
    \/ \E a \in Addrs : IgnoreExpires(a)

SpecIngress == InitIngress /\ [][NextIngress]_vars

\* The server from its start to process.exit: a local write and an edit of
\* the sheet, the polls and the passes they lead to, a termination signal
\* at any time after the start, and one awaited call of gracefulShutdown
\* that throws.
InitShutdown ==
    /\ InitIdle
    /\ sheet = EmptySheet
    /\ budget = [edits |-> MaxEdits, writes |-> MaxWrites, faults |-> 1]
    /\ off = {}

NextShutdown ==
    \/ Boot
    \/ BootReplay
    \/ PoolOpen /\ PollStart
    \/ PoolOpen /\ PollDiff
    \/ PoolOpen /\ PollApply
    \/ PoolOpen /\ TimerFires
    \/ PoolOpen /\ \E p \in Passes : SyncFetch(p)
    \/ PoolOpen /\ \E p \in Passes : SyncPush(p)
    \/ PoolOpen /\ \E p \in Passes : SyncRewrite(p)
    \/ \E v \in LocalVals : Webhook(Key(1, 1), v)
    \/ \E v \in LocalVals : RemoteEdit(Key(1, 1), v)
    \/ GracefulShutdown
    \/ WorkerClosed
    \/ PoolEnded
    \/ KvQuit

SpecShutdown == InitShutdown /\ [][NextShutdown]_vars

\* Local writes to one cell only, one more of them and one more fault than
\* in Spec: two writes can meet in the outbound sync and in the list pending:to_sheet,
\* and the process can die while it replays the list.
InitBusy ==
    /\ InitIdle
    /\ sheet = EmptySheet
    /\ budget = [edits |-> 0, writes |-> MaxWrites + 1, faults |-> MaxFaults + 1]
    /\ off = {}

NextBusy ==
    \/ Boot
    \/ BootReplay
    \/ PollStart
    \/ PollDiff
    \/ PollApply
    \/ TimerFires
    \/ ForceSync
    \/ \E p \in Passes : SyncFetch(p)
    \/ \E p \in Passes : SyncPush(p)
    \/ \E p \in Passes : SyncRewrite(p)
    \/ \E v \in Vals : Webhook(Key(1, 1), v)
    \/ SheetDown
    \/ SheetBack
    \/ BackoffOver
    \/ Restart
    \/ CrashInDrain

SpecBusy == InitBusy /\ [][NextBusy]_vars

\* One edit, typed into the sheet or written locally, on a system without
\* faults in which any of the echo-prevention layers may be switched off:
\* the ignore key is never set, the origin tag is not looked at, the
\* snapshot write-through is left out.
InitLayers ==
    /\ InitIdle
    /\ sheet \in InitSheets
    /\ budget \in {[edits |-> 1, writes |-> 0, faults |-> 0],
                   [edits |-> 0, writes |-> 1, faults |-> 0]}
    /\ off \in SUBSET Layers

NextLayers ==
    \/ Boot
    \/ BootReplay
    \/ PollStart
    \/ PollDiff
    \/ PollApply
    \/ TimerFires
    \/ ForceSync
    \/ \E p \in Passes : SyncFetch(p)
    \/ \E p \in Passes : SyncPush(p)
    \/ \E p \in Passes : SyncRewrite(p)
    \/ \E a \in Addrs, v \in RemoteVals : RemoteEdit(a, v)
    \/ \E a \in Addrs, v \in RemoteVals : NotifiedEdit(a, v)
    \/ Notify
    \/ \E a \in Addrs, v \in LocalVals : Webhook(a, v)
    \/ \E a \in Addrs : SqlDelete(a)
    \/ \E a \in Addrs : IgnoreExpires(a)

SpecLayers == InitLayers /\ [][NextLayers]_vars

(* ----------------------- requests using the lock ---------------------- *)
\* a request arrives (bot task, worker job or SQL terminal write) and calls
\* acquireLock(row, col, owner)
Begin(r) ==
    /\ rq[r].pc = "idle"
    /\ \E a \in TaskCells, o \in OwnersOf(r) :
            rq' = [rq EXCEPT ![r] = [owner |-> o, addr |-> a, pc |-> "acquire",
                                     retries |-> 0, tries |-> 0]]
    /\ simul' = (simul /\ \A q \in Reqs : rq[q].pc \in {"idle", "acquire"})
    /\ ev' = NoEv
    /\ UNCHANGED <<lock, db, holders>>
    /\ UNCHANGED cdcVars

\* one pass through acquireLock's loop body
Attempt(r) ==
    /\ rq[r].pc = "acquire"
    /\ LET res == AcquireOnce(lock, rq[r].addr, rq[r].owner) IN
         /\ lock' = res.lock
         /\ rq' = [rq EXCEPT ![r].pc = IF res.ok THEN "locked" ELSE "sleep",
                              ![r].tries = @ + 1]
         /\ holders' = IF res.ok
                       THEN [holders EXCEPT ![rq[r].addr] = @ \cup {r}]
                       ELSE holders
         /\ ev' = LockEv("acquire", rq[r].addr, rq[r].owner,
                         lock[rq[r].addr].owner, res.ok)
    /\ UNCHANGED <<db, simul>>
    /\ UNCHANGED cdcVars

\* TickMs milliseconds pass: leases age, sleeping callers wake up
Tick ==
    /\ \A r \in Reqs : rq[r].pc # "acquire"
    /\ \/ \E a \in Addrs : lock[a].owner # NoOwner
       \/ \E r \in Reqs : rq[r].pc = "sleep"
    /\ lock' = Age(lock)
    /\ holders' = HoldersAfter(Age(lock), holders)
    /\ rq' = [r \in Reqs |-> IF rq[r].pc = "sleep" THEN AfterDelay(rq[r]) ELSE rq[r]]
    /\ ev' = NoEv
    /\ UNCHANGED <<db, simul>>
    /\ UNCHANGED cdcVars

\* acquireLock returned false
\*   bot:    result lock_conflict, no release
\*   worker: throws, the catch block calls releaseLock, the job fails
\*   sql:    nothing was acquired before, HTTP 409
Denied(r) ==
    /\ rq[r].pc = "denied"
    /\ rq' = [rq EXCEPT ![r].pc = "conflict"]
    /\ IF KindOf(rq[r].owner) = "worker"
       THEN /\ lock' = ReleaseLock(lock, rq[r].addr, rq[r].owner)
            /\ holders' = HoldersAfter(ReleaseLock(lock, rq[r].addr, rq[r].owner), holders)
            /\ ev' = LockEv("release", rq[r].addr, rq[r].owner,
                            lock[rq[r].addr].owner, FALSE)
       ELSE /\ ev' = NoEv
            /\ UNCHANGED <<lock, holders>>
    /\ UNCHANGED <<db, simul>>
    /\ UNCHANGED cdcVars

\* the write made after acquireLock returned true
\*   bot:    INSERT ... ON DUPLICATE KEY UPDATE with last_modified_by = botName
\*   worker: UPDATE or INSERT with last_modified_by = 'user'
\*   sql:    the user's statement, last_modified_by = 'sql_terminal'
\* or the statement fails (store error) and nothing is written
Write(r) ==
    /\ rq[r].pc = "locked"
    /\ \/ /\ db' = Upsert(db, rq[r].addr, ValOf(rq[r].owner), OriginOf(rq[r].owner))
          /\ ev' = WriteEv(rq[r].addr, rq[r].owner, OriginOf(rq[r].owner),
                           r \in holders[rq[r].addr], FALSE)
          /\ rq' = [rq EXCEPT ![r].pc = "written"]
       \/ /\ rq' = [rq EXCEPT ![r].pc = "failed"]
          /\ ev' = NoEv
          /\ UNCHANGED db
    /\ UNCHANGED <<lock, holders, simul>>
    /\ UNCHANGED cdcVars

\* the SQL terminal's UPDATE of a cell that has no row: the locks acquired
\* are released and the request is answered 400; the finally block follows
Rejected(r) ==
    /\ rq[r].pc = "locked"
    /\ KindOf(rq[r].owner) = "sql"
    /\ ~Exists(db, rq[r].addr)
    /\ lock' = ReleaseLock(lock, rq[r].addr, rq[r].owner)
    /\ holders' = HoldersAfter(ReleaseLock(lock, rq[r].addr, rq[r].owner), holders)
    /\ rq' = [rq EXCEPT ![r].pc = "rejected"]
    /\ ev' = LockEv("release", rq[r].addr, rq[r].owner, lock[rq[r].addr].owner, TRUE)
    /\ UNCHANGED <<db, simul>>
    /\ UNCHANGED cdcVars

\* releaseLock in the finally / catch block or after the write
Release(r) ==
    /\ rq[r].pc \in {"written", "failed", "rejected"}
    /\ lock' = ReleaseLock(lock, rq[r].addr, rq[r].owner)
    /\ holders' = HoldersAfter(ReleaseLock(lock, rq[r].addr, rq[r].owner), holders)
    /\ rq' = [rq EXCEPT ![r].pc = IF rq[r].pc = "written" THEN "success" ELSE "error"]
    /\ ev' = LockEv("release", rq[r].addr, rq[r].owner, lock[rq[r].addr].owner, TRUE)
    /\ UNCHANGED <<db, simul>>
    /\ UNCHANGED cdcVars

\* the holder's process dies before it calls releaseLock
Crash(r) ==
    /\ rq[r].pc = "locked"
    /\ rq' = [rq EXCEPT ![r].pc = "crashed"]
    /\ ev' = NoEv
    /\ UNCHANGED <<lock, db, holders, simul>>
    /\ UNCHANGED cdcVars

\* a caller that was denied calls acquireLock again
Again(r) ==
    /\ rq[r].pc = "conflict"
    /\ rq' = [rq EXCEPT ![r].pc = "acquire", ![r].retries = 0, ![r].tries = 0]
    /\ simul' = FALSE
    /\ ev' = NoEv
    /\ UNCHANGED <<lock, db, holders>>
    /\ UNCHANGED cdcVars

\* delay(RETRY_DELAY) of one caller is over
Delay(r) ==
    /\ rq[r].pc = "sleep"
    /\ rq' = [rq EXCEPT ![r] = DelayOnce(rq[r])]
    /\ ev' = NoEv
    /\ UNCHANGED <<lock, db, holders, simul>>
    /\ UNCHANGED cdcVars

\* the key of a cell reaches its TTL
LeaseExpires(a) ==
    /\ lock[a].owner # NoOwner
    /\ lock' = [lock EXCEPT ![a] = FreeLock]
    /\ holders' = HoldersAfter(lock', holders)
    /\ ev' = NoEv
    /\ UNCHANGED <<rq, db, simul>>
    /\ UNCHANGED cdcVars

InitLock ==
    /\ InitIdle
    /\ sheet = EmptySheet
    /\ budget = NoBudget
    /\ off = {}

NextLock ==
    \/ \E r \in Reqs : Begin(r)
    \/ \E r \in Reqs : Attempt(r)
    \/ Tick
    \/ \E r \in Reqs : Denied(r)
    \/ \E r \in Reqs : Write(r)
    \/ \E r \in Reqs : Release(r)

SpecLock == InitLock /\ [][NextLock]_vars

\* The lease of one contested cell between a holder that may die and a
\* caller that calls acquireLock again after each denial.  Time passes,
\* timers fire and callers run; nothing obliges a holder to finish its work.
ContestedCell == Key(1, 1)
LeaseReqs == {1, 2}

BeginContested(r) ==
    /\ Begin(r)
    /\ rq'[r].addr = ContestedCell

CallerStep == \E r \in LeaseReqs : Attempt(r) \/ Denied(r) \/ Again(r)

NextLease ==
    \/ \E r \in LeaseReqs : BeginContested(r)
    \/ \E r \in LeaseReqs : Attempt(r)
    \/ Tick
    \/ \E r \in LeaseReqs : Denied(r)
    \/ \E r \in LeaseReqs : Write(r)
    \/ \E r \in LeaseReqs : Release(r)
    \/ \E r \in LeaseReqs : Crash(r)
    \/ \E r \in LeaseReqs : Again(r)

FairLease == WF_vars(Tick) /\ WF_vars(CallerStep)

SpecLease == InitLock /\ [][NextLease]_vars /\ FairLease

\* The requests from acquireLock to their last line: bot tasks, a worker job
\* and queries of the SQL terminal on two cells, with statements that fail
\* and UPDATEs of a missing cell; no process dies.
NextRequest ==
    \/ \E r \in LeaseReqs : Begin(r)
    \/ \E r \in LeaseReqs : Attempt(r)
    \/ Tick
    \/ \E r \in LeaseReqs : Denied(r)
    \/ \E r \in LeaseReqs : Write(r)
    \/ \E r \in LeaseReqs : Rejected(r)
    \/ \E r \in LeaseReqs : Release(r)

SpecRequest == InitLock /\ [][NextRequest]_vars

\* acquireLock attempt by attempt: callers of one cell, each attempt and each
\* delay a step of its own; a holder works for any time and its key may
\* expire meanwhile.  Every awaited SET returns and every delay ends.
NextAcquire ==
    \/ \E r \in LeaseReqs : BeginContested(r)
    \/ \E r \in LeaseReqs : Attempt(r)
    \/ \E r \in LeaseReqs : Delay(r)
    \/ \E r \in LeaseReqs : Denied(r)
    \/ \E r \in LeaseReqs : Write(r)
    \/ \E r \in LeaseReqs : Release(r)
    \/ LeaseExpires(ContestedCell)
    \/ \E r \in LeaseReqs : Again(r)

FairAcquire == \A r \in LeaseReqs : WF_vars(Attempt(r)) /\ WF_vars(Delay(r))

SpecAcquire == InitLock /\ [][NextAcquire]_vars /\ FairAcquire

(* ============================== claims ================================ *)

Final(r) == rq[r].pc \in {"success", "error", "conflict"}
Acquired(r) == rq[r].pc \in {"success", "error"}

\* C1: for every address at most one request holds the lease at any time,
\* and an acquire succeeds only when the address has no unexpired lease.
C1_MutualExclusion ==
    /\ \A a \in Addrs : Cardinality(holders[a]) <= 1
    /\ \A a \in Addrs : holders[a] # {} => lock[a].owner # NoOwner
    /\ (ev.op = "acquire" /\ ev.ok) => ev.before = NoOwner

\* two requests believe they hold the same cell (the first one's lease ran
\* out while it worked), the key has one holder
C1_Witness ==
    \E r1, r2 \in Reqs :
        /\ r1 # r2 /\ rq[r1].addr = rq[r2].addr
        /\ rq[r1].pc = "locked" /\ rq[r2].pc = "locked"
        /\ holders[rq[r1].addr] = {r2}

\* C2: every store write to an address happens while the writer holds the
\* address's lease.
C2_WriteUnderLease == ev.op = "write" => ev.held

\* C3: release(address, owner) deletes the key when its value equals owner
\* and otherwise changes nothing: no other key, no other owner's lease.
C3_ReleaseCheckAndDelete ==
    [][ev'.op = "release" =>
         lock' = IF lock[ev'.addr].owner = ev'.by
                 THEN [lock EXCEPT ![ev'.addr] = FreeLock]
                 ELSE lock]_vars

\* A's lease expired, B acquired the cell, A's release in its finally block
\* left B's lease in place
C3_Witness ==
    /\ ev.op = "release" /\ ev.ok
    /\ ev.before \notin {NoOwner, ev.by}
    /\ lock[ev.addr].owner = ev.before

\* C4: a lease whose holder died disappears, and a caller that keeps calling
\* acquireLock for the cell gets the lease.
C4_NoLockForever ==
    /\ \A r \in LeaseReqs :
         (rq[r].pc = "crashed" /\ r \in holders[rq[r].addr])
            ~> (r \notin holders[rq[r].addr])
    /\ \A r \in LeaseReqs :
         (rq[r].pc \in {"acquire", "sleep", "denied", "conflict"})
            ~> (rq[r].pc = "locked")

\* a caller holds the cell on which another holder died
C4_Witness ==
    \E r1, r2 \in Reqs :
        /\ r1 # r2 /\ rq[r1].addr = rq[r2].addr
        /\ rq[r1].pc = "crashed" /\ rq[r2].pc = "locked"
        /\ holders[rq[r2].addr] = {r2}

\* C5: when all requests contend simultaneously for one cell, exactly one of
\* them gets the lease and each of the others ends with a contention denial.
C5_ExactlyOneWinner ==
    (/\ simul
     /\ \A r \in Reqs : Final(r) /\ rq[r].addr = rq[1].addr)
    => /\ Cardinality({r \in Reqs : Acquired(r)}) = 1
       /\ \A r \in Reqs : ~Acquired(r) => rq[r].pc = "conflict"

\* C6: every store write with origin 'sheet' (poll loop, startup sync, replay
\* of pending:to_db) is made while the ignore key of its address exists.
C6_MarkAtRemoteWrite ==
    (ev.op = "write" /\ ev.origin = "sheet") => ev.mark

\* C7: once the poller has applied the remote edit of a cell, and nothing is
\* typed or written on either side afterwards, no outbound batch contains
\* the cell and no poll reports it as changed.
C7_NoEchoOfRemoteEdit ==
    (ev.op \in {"batch", "diff"}) => ev.cells \cap hist.quiet = {}

\* C8: when a poll computes its diff, the snapshot entry of every cell
\* pushed successfully since the previous diff holds the pushed value.
C8_SnapshotHoldsPushedValue ==
    (ev.op = "diff") => ev.stale = {}

\* C9: a poll's diff never reports a cell whose fetched value is the value
\* the reconciler itself last wrote to that sheet cell (batch or replay).
C9_OwnWriteNotReported ==
    (ev.op = "diff") => ev.cells \cap poll.own = {}

\* C10: with at most two of the three layers switched off, one edit leads to
\* at most three reconciler writes of a cell, both sides counted: the edit's
\* propagation and one further round trip, never an unending alternation.
C10_BoundedEcho ==
    Cardinality(off) <= 2 => \A a \in Addrs : hist.n[a] <= 3

\* two layers are off and the reconciler has written a cell a second time
\* after one edit
C10_Witness ==
    /\ Cardinality(off) = 2
    /\ \E a \in Addrs : hist.n[a] >= 2

\* the sheet and the table hold the same value in every cell that is not
\* empty on both sides
Agree == \A a \in Addrs : db[a].value = sheet[a]

\* C11: once the inputs have stopped and both peers are reachable, the polls
\* and passes still to run bring the sheet and the table to the same value
\* in every non-empty cell, and they stay equal.
C11_Converges == <>[](sheetUp /\ dbUp) => <>[]Agree

\* C12: an outbound batch never overwrites or clears a sheet cell that holds
\* a remote edit no poll has fetched yet and that no local write addressed,
\* so that the edit can still reach the table.
C12_RemoteEditSurvivesPass == (ev.op = "batch") => ev.lost = {}

\* a row written locally and not pushed yet: the push rewrites its origin
Local(a) == db[a] # NoRow /\ db[a].origin # "sheet"

\* C13: after a local write to a cell (SQL terminal, worker job, bot task) an
\* outbound pass reads the table and pushes the cell: the sheet comes to hold
\* the row's value, unless a remote edit replaces the row first.
C13_LocalWritePushed ==
    \A a \in Addrs : Local(a) ~> (~Local(a) \/ sheet[a] = db[a].value)

\* C14: at most one call of syncFromDatabase is past the dirty-flag test and
\* has not returned, and at most one batchUpdate is awaited.
C14_OnePassAtATime ==
    Cardinality({p \in Passes : sync[p].pc # "idle"}) <= 1

\* C16: a cell whose local write was queued because the sheet could not be
\* reached has an entry in pending:to_sheet in every state until a replay of
\* an entry for it has succeeded.
C16_QueuedUntilReplayed ==
    \A a \in hist.owed : a \in AddrsOf(kv.pendingToSheet)

\* the entries of a list are in the order of their timestamps
InOrder(q) == \A i, j \in 1..Len(q) : i < j => q[i].ts <= q[j].ts

\* C18: the entries of each pending list are in the order in which they were
\* enqueued, also after a replay that failed, so that a drain replays them
\* first in, first out and the last value enqueued for a cell is the one
\* the target ends with.
C18_ReplayInOrder ==
    InOrder(kv.pendingToSheet) /\ InOrder(kv.pendingToDb)

\* C17: a step of the running process that sets a peer's flag from offline
\* to online also drains the peer's pending list, wherever the flag is set.
C17_DrainOnReconnect ==
    [][cdc' # NewCdc =>
         /\ (~cdc.dbOnline /\ cdc'.dbOnline) => kv'.pendingToDb = <<>>
         /\ (~cdc.sheetOnline /\ cdc'.sheetOnline) => kv'.pendingToSheet = <<>>]_vars

\* C15: at most one call of pollForChanges is in progress; a tick that finds
\* the flag set changes nothing; and the flag is set exactly while a poll is
\* in progress, whichever way the poll ended, so that the next tick polls.
C15_OnePollAtATime ==
    /\ [](/\ poll.n <= 1
          /\ poll.busy <=> poll.n = 1
          /\ poll.busy <=> poll.pc # "idle")
    /\ [][ev'.op = "tick" => UNCHANGED <<poll, cdc, db, sheet, kv, sync>>]_vars

\* the interval fired while a poll was writing its changes to the table
C15_Witness == ev.op = "tick" /\ poll.pc = "apply" /\ poll.busy

\* C20: for every configured value the poll timer's period is
\* max(3000, value), and GET /status reports that same clamped value.
C20_IntervalClamped ==
    LET clamped == Max({3000, ParseEnv(conf.env)}) IN
    /\ conf.interval # 0 => conf.interval = clamped
    /\ conf.reported # Unset => conf.reported = clamped

\* C19: the diff of a snapshot against itself is empty, and the set of
\* changes computed for lastSnapshot and currentData is the same for every
\* iteration order of the two maps; it is the set the poll goes on to apply.
C19_DiffStable ==
    \A oc \in DiffOrders, ol \in DiffOrders :
       LET changes == Diff(poll.cur, cdc.lastSnapshot, oc, ol) IN
       /\ (poll.pc = "fetched" /\ cdc.lastSnapshot = poll.cur) => changes = <<>>
       /\ poll.pc = "fetched" =>
             SeqRange(changes) =
                 SeqRange(Diff(poll.cur, cdc.lastSnapshot, AddrSeq, AddrSeq))
       /\ (ev.op = "diff" /\ poll.pc = "apply") =>
             {ch.addr : ch \in SeqRange(changes)} = SeqRange(poll.todo)

\* a diff with two changes, whose order in `changes` depends on the
\* iteration order
C19_Witness ==
    /\ ev.op = "diff" /\ poll.pc = "apply"
    /\ Cardinality(ev.cells) >= 2
    /\ \E oc \in DiffOrders, ol \in DiffOrders :
          Diff(poll.cur, cdc.lastSnapshot, oc, ol)
              # Diff(poll.cur, cdc.lastSnapshot, AddrSeq, AddrSeq)

InAcquire(r) == rq[r].pc \in {"acquire", "sleep"}
Returned(r) == rq[r].pc \in {"locked", "denied"}

\* C21: a call of acquireLock returns: true at the first attempt whose SET NX
\* succeeds, false after MAX_RETRIES failed attempts with one delay of
\* RETRY_DELAY after each; it sends at most MAX_RETRIES commands and has no
\* other outcome.
C21_AcquireTerminates ==
    /\ \A r \in LeaseReqs : InAcquire(r) ~> Returned(r)
    /\ [](\A r \in LeaseReqs :
            /\ rq[r].tries <= MAX_RETRIES
            /\ rq[r].pc = "denied" =>
                  rq[r].tries = MAX_RETRIES /\ rq[r].retries = MAX_RETRIES
            /\ rq[r].pc = "locked" => rq[r].tries = rq[r].retries + 1)
    /\ [][\A r \in LeaseReqs :
            /\ (rq[r].pc = "acquire" /\ rq'[r] # rq[r]) =>
                  /\ rq'[r].tries = rq[r].tries + 1
                  /\ rq'[r].pc = IF lock[rq[r].addr].owner = NoOwner
                                 THEN "locked" ELSE "sleep"
            /\ (rq[r].pc = "sleep" /\ rq'[r] # rq[r]) =>
                  /\ rq'[r].tries = rq[r].tries
                  /\ rq'[r].retries = rq[r].retries + 1
                  /\ rq'[r].pc \in {"acquire", "denied"}]_vars

\* a caller was denied after MAX_RETRIES attempts while the other caller
\* held the cell
C21_Witness ==
    \E r1, r2 \in LeaseReqs :
        /\ rq[r1].pc = "denied" /\ rq[r1].tries = MAX_RETRIES
        /\ rq[r2].pc = "locked" /\ holders[ContestedCell] = {r2}

\* C22: when a pass builds its batch, from the rows it read or from the rows
\* cached in snapshot:db, no value write of the batch addresses a cell whose
\* row in the table has origin 'sheet'.
C22_NoPushOfRemoteOrigin ==
    (ev.op = "built") => \A a \in ev.cells : db[a].origin # "sheet"

\* C23: the origin rewrite that ends a pass gives origin 'sheet' only to a
\* row that holds the value the pass pushed for its cell; a row written
\* locally since the pass read the table keeps its origin.
C23_RewriteOnlyPushedValue ==
    [][\A p \in Passes :
         (sync[p].pc = "pushed" /\ sync'[p].pc = "idle") =>
            \A a \in Addrs :
               (db[a].origin # "sheet" /\ db'[a].origin = "sheet") =>
                  db[a].value = sync[p].updates[a]]_vars

\* C24: at most one debounce timer is pending; after a call the timer that
\* is pending fires SYNC_DEBOUNCE after that call, whatever calls came
\* before it in the burst; and a burst of calls, each made before the timer
\* of the call before it fired, ends with exactly one firing, SYNC_DEBOUNCE
\* after its last call.
C24_Debounced ==
    /\ [](/\ Cardinality(deb.pending) <= 1
          /\ deb.fires <= 1
          /\ (deb.last >= 0 /\ deb.fires = 0) =>
                deb.pending = {[id |-> deb.handle, due |-> deb.last + DebounceSteps]}
          /\ deb.fires = 1 =>
                deb.pending = {} /\ deb.firedAt = deb.last + DebounceSteps)
    /\ (deb.pending # {}) ~> (deb.fires = 1)

\* three calls in one burst and one firing
C24_Witness ==
    /\ deb.ids >= 3 /\ deb.fires = 1
    /\ deb.firedAt > SYNC_DEBOUNCE \div DebounceStepMs + 1

\* C25: once both peers are reachable for good, every entry of
\* pending:to_sheet and pending:to_db is replayed: both lists become empty
\* and stay empty, whatever made the monitor enqueue the entries.
C25_PendingReplayed ==
    <>[](sheetUp /\ dbUp) => <>[](kv.pendingToSheet = <<>> /\ kv.pendingToDb = <<>>)

\* C26: no row of the table holds the empty value: whichever path writes the
\* empty value to an address (poll loop, replay of pending:to_db, worker
\* job) deletes the row.
C26_NoEmptyRow == \A a \in Addrs : Exists(db, a) => db[a].value # ""

\* C27: the changes of a poll depend only on the values of the two maps, an
\* absent key counting as the empty value: two maps that differ only in
\* holding a key with the empty value or not holding it give the same
\* changes; there is exactly one change for each address whose values
\* differ and none for any other address; a change carries the old and the
\* new value, the empty value when the cell was emptied.
C27_EmptyLikeAbsent ==
    LET Empty(v) == v \in {Absent, ""}
        SameAt(m1, m2, a) == (Empty(m1[a]) /\ Empty(m2[a])) \/ m1[a] = m2[a]
        Like(m) == {m2 \in DiffSnaps : \A a \in DiffCells : SameAt(m, m2, a)}
        cur == poll.cur
        last == cdc.lastSnapshot
        changes == Diff(cur, last, AddrSeq, AddrSeq)
    IN poll.pc \in {"fetched", "apply"} =>
         /\ \A a \in Addrs :
               Cardinality({i \in 1..Len(changes) : changes[i].addr = a})
                   = IF SameAt(cur, last, a) THEN 0 ELSE 1
         /\ \A ch \in SeqRange(changes) :
               /\ ch.newValue = IF Empty(cur[ch.addr]) THEN "" ELSE cur[ch.addr]
               /\ ch.oldValue = IF Empty(last[ch.addr]) THEN "" ELSE last[ch.addr]
         /\ \A cur2 \in Like(cur), last2 \in Like(last) :
               SeqRange(Diff(cur2, last2, AddrSeq, AddrSeq)) = SeqRange(changes)
         /\ poll.pc = "apply" => SeqRange(poll.todo) \subseteq {ch.addr : ch \in SeqRange(changes)}

\* a poll whose diff holds a deletion, while another cell is empty in one
\* map and absent from the other
C27_Witness ==
    /\ ev.op = "diff" /\ poll.pc = "apply"
    /\ \E a \in ev.cells : Get(poll.cur, a) = "" /\ cdc.lastSnapshot[a] \in Vals
    /\ \E a \in Addrs \ ev.cells :
          {poll.cur[a], cdc.lastSnapshot[a]} = {Absent, ""}

C29_BackoffInRange ==
    /\ [](/\ INITIAL_BACKOFF <= cdc.backoff /\ cdc.backoff <= MAX_BACKOFF
          /\ cdc.limited => cdc.window = cdc.backoff)
    /\ [][/\ (cdc'.consec = cdc.consec + 1) =>
              /\ cdc'.backoff = IF 2 * cdc.backoff > 60000 THEN 60000
                                ELSE 2 * cdc.backoff
              /\ cdc'.window = cdc'.backoff
              /\ cdc'.limited
          /\ ((poll.pc = "idle" /\ poll'.pc = "fetched") \/ ev'.op = "built") =>
              cdc'.backoff = 5000 /\ cdc'.consec = 0]_vars

\* the fifth 429 in a row: the backoff stays at its cap
C29_Witness ==
    cdc.limited /\ cdc.consec = 5 /\ cdc.backoff = MAX_BACKOFF

\* C30: the windows set by the 1st, 2nd, 3rd, 4th and 5th 429 in a row,
\* counted from the reset state, are 5 s, 10 s, 20 s, 40 s and 60 s.
C30_BackoffProgression ==
    (cdc.limited /\ cdc.consec \in 1..5) =>
        cdc.window = <<5000, 10000, 20000, 40000, 60000>>[cdc.consec]

\* C31: a step that begins inside the backoff window (Date.now() is before
\* rateLimitedUntil) calls no method of the Sheets API: no values.get, no
\* values.batchUpdate, no values.update of a replayed entry, the replay at
\* startup included; a read asked for in the window returns null.
C31_NoCallInWindow == [][cdc.limited => ev'.api = {}]_vars

\* C32: when batchUpdate fails, every write of the batch, value writes and
\* delete writes alike, has an entry in pending:to_sheet and sheetOnline is
\* false.
C32_FailedBatchQueued ==
    (ev.op = "batch" /\ ~ev.ok) =>
        /\ ev.cells \subseteq AddrsOf(kv.pendingToSheet)
        /\ ~cdc.sheetOnline

C34_WorkerSkipsMarked ==
    (ev.op = "write" /\ ev.by = "worker") => ~ev.mark

\* C35: a request that acquired the lease of its cell calls releaseLock for
\* that cell with its own owner value on every way out (after the write,
\* after a statement that failed, after a rejected UPDATE of a missing
\* cell), and a request that has ended holds no lease: the key it set is
\* deleted, unless its TTL removed it before.
C35_ReleasedOnEveryPath ==
    /\ [](\A r \in LeaseReqs : Final(r) => \A a \in Addrs : r \notin holders[a])
    /\ [][\A r \in LeaseReqs :
            /\ (rq[r].pc \in {"written", "failed", "rejected"} /\ rq'[r] # rq[r]) =>
                  /\ ev'.op = "release" /\ ev'.by = rq[r].owner /\ ev'.addr = rq[r].addr
                  /\ lock'[rq[r].addr].owner # rq[r].owner
                  /\ Final(r)'
            /\ (rq[r].pc = "locked" /\ rq'[r] # rq[r]) =>
                  rq'[r].pc \in {"written", "failed", "rejected"}]_vars

\* a query of the SQL terminal whose UPDATE was rejected has ended, and the
\* key it had set is gone while the other request works on another cell
C35_Witness ==
    \E r1, r2 \in LeaseReqs :
        /\ rq[r1].pc = "error" /\ KindOf(rq[r1].owner) = "sql"
        /\ ~Exists(db, rq[r1].addr)
        /\ lock[rq[r1].addr].owner = NoOwner
        /\ rq[r2].pc = "locked" /\ r2 \in holders[rq[r2].addr]

\* C36: a call of gracefulShutdown that has ended, by process.exit or by an
\* awaited call that threw, has called every step (monitor stopped, worker
\* closed, pool ended, Redis client quit), and the process has exited with
\* code 0.
C36_EveryStepAttempted ==
    proc.pc \in {"rejected", "exited"} =>
        proc.attempted = ShutdownSteps /\ proc.code = 0

\* C37: once cdcMonitor.stop() has run, no poll starts and no call of
\* syncFromDatabase gets past its flag test: the interval is cleared and
\* the debounce timer that was pending does not fire.
C37_QuietAfterStop ==
    [][cdc.phase = "stopped" =>
         /\ poll.pc = "idle" => poll'.pc = "idle"
         /\ \A p \in Passes : sync[p].pc = "idle" => sync'[p].pc = "idle"
         /\ cdc.timer => cdc'.timer \/ cdc'.phase = "exited"]_vars

\* C38: after a successful read of the sheet during initialize(), the
\* in-memory snapshot is the map just read: no key of the snapshot loaded
\* from Redis that the fresh read does not have stays in it
C38_BootAdoptsRead ==
    [][(/\ cdc.phase = "boot" /\ cdc'.phase = "replay"
        /\ "get" \in ev'.api /\ cdc'.sheetOnline /\ ~cdc'.limited)
           => cdc'.lastSnapshot = CellMap(sheet)]_vars

\* C40: the syncToDatabase of initialize() leaves every row whose origin is
\* not 'sheet' as it was: a write of the worker that no pass has pushed
\* keeps its value and its origin over a restart
C40_BootKeepsLocal ==
    [][(cdc.phase = "boot" /\ cdc'.phase = "replay")
           => \A a \in Addrs :
                (Exists(db, a) /\ db[a].origin # "sheet") => db'[a] = db[a]]_vars

\* C39: a releaseLock call of one request never deletes the lease another
\* request acquired: a request whose lease goes away in a release step is
\* the request that made the call (the owner strings of requests running
\* at the same time differ)
C39_ReleaseOwnLease ==
    [][ev'.op = "release"
           => \A a \in Addrs, r \in Reqs :
                (r \in holders[a] /\ r \notin holders'[a]) => rq'[r].pc # rq[r].pc]_vars

====
